---- MODULE Spec2Model ----
(***************************************************************************)
(* The authenticated-packet layer of the TWS protocol                      *)
(* (src/src/protocol/protocol.rs) and the pass-through BytesCodec          *)
(* (src/src/protocol/codec.rs).                                            *)
(*                                                                         *)
(* A Rust &str / String is modelled as its UTF-8 byte sequence (a sequence *)
(* of integers 0..255), a &[u8] as a byte sequence, an i64 as three limbs  *)
(* <<a, b, c>> meaning a * 2^42 + b * 2^21 + c (the model checker's        *)
(* integers are narrower than 64 bits).  A Result is a record              *)
(* [kind, val, err] with kind "Ok", "Err" or "Panic"; err is the message   *)
(* of the error_chain error the code builds.                               *)
(***************************************************************************)
EXTENDS Integers, Sequences, FiniteSets, TLC

VARIABLES
    packet,     \* the bytes on the wire (what a parse function is handed)
    origin,     \* how the bytes were produced (the builder's arguments)
    result,     \* the outcome of the last parse, with the arguments it got
    buf,        \* BytesCodec: the BytesMut both encode and decode work on
    encoded,    \* BytesCodec: every encoded data, concatenated in call order
    decoded,    \* BytesCodec: the items decode returned, in call order
    last        \* BytesCodec: the last call and what it returned

vars == <<packet, origin, result, buf, encoded, decoded, last>>

(***************************************************************************)
(* Byte strings                                                            *)
(***************************************************************************)
LF == <<10>>
CR == <<13>>

\* "AUTH"
AUTH == <<65, 85, 84, 72>>
\* "AUTH "
AUTH_SP == <<65, 85, 84, 72, 32>>
\* "NOW "
NOW_SP == <<78, 79, 87, 32>>
\* "TARGET "
TARGET_SP == <<84, 65, 82, 71, 69, 84, 32>>
\* "NEW CONNECTION "
NEW_CONNECTION_SP == <<78, 69, 87, 32, 67, 79, 78, 78, 69, 67, 84, 73, 79, 78, 32>>

Ok(v) == [kind |-> "Ok", val |-> v, err |-> ""]
Err(msg) == [kind |-> "Err", val |-> <<>>, err |-> msg]
Panic(msg) == [kind |-> "Panic", val |-> <<>>, err |-> msg]

\* str::starts_with: a comparison of bytes
starts_with(s, prefix) ==
    /\ Len(s) >= Len(prefix)
    /\ SubSeq(s, 1, Len(prefix)) = prefix

\* &s[n..] once n is known to be a character boundary within s
from(s, n) == SubSeq(s, n + 1, Len(s))

\* [String]::join(sep)
RECURSIVE join(_, _)
join(ls, sep) ==
    IF ls = <<>> THEN <<>>
    ELSE IF Len(ls) = 1 THEN ls[1]
    ELSE ls[1] \o sep \o join(Tail(ls), sep)

\* The number of characters (not bytes) of a valid UTF-8 string: every byte
\* but the continuation bytes 0x80..0xBF starts one.
Cont(b) == b >= 128 /\ b <= 191

chars_count(s) == Cardinality({i \in 1..Len(s) : ~Cont(s[i])})

\* The length of the character a lead byte starts (0: no lead byte), and
\* whether the bytes after the lead at i are the ones its character needs
\* (the table of the Unicode standard: no overlong forms, no surrogates, at
\* most U+10FFFF).
char_len(b) ==
    IF b < 128 THEN 1
    ELSE IF b >= 194 /\ b <= 223 THEN 2
    ELSE IF b >= 224 /\ b <= 239 THEN 3
    ELSE IF b >= 240 /\ b <= 244 THEN 4
    ELSE 0

char_at(s, i) ==
    LET b == s[i]
        n == char_len(b)
    IN  /\ n > 0
        /\ i + n - 1 <= Len(s)
        /\ \A k \in 1..(n - 1) : Cont(s[i + k])
        /\ (b = 224 => s[i + 1] >= 160)
        /\ (b = 237 => s[i + 1] <= 159)
        /\ (b = 240 => s[i + 1] >= 144)
        /\ (b = 244 => s[i + 1] <= 143)

\* std::str::from_utf8 succeeds: every byte starts a well-formed character
\* or continues the well-formed character a lead byte before it started.
valid_utf8(s) ==
    \A i \in 1..Len(s) :
        IF Cont(s[i])
        THEN \E k \in 1..3 :
                /\ i - k >= 1
                /\ char_len(s[i - k]) > k
                /\ char_at(s, i - k)
                /\ \A j \in 1..(k - 1) : Cont(s[i - j])
        ELSE char_at(s, i)

(***************************************************************************)
(* str::lines.  The pieces are those of split_terminator('\n'): the text   *)
(* between line feeds, without a last empty piece.  A "\r" before the      *)
(* "\n" is dropped with it.  The standard library the repository was       *)
(* written against also dropped a "\r" that ends the last, unterminated    *)
(* line; later ones keep it: std_old says which one the build links.       *)
(***************************************************************************)
\* the first place of byte b in s, or 0
index_of(s, b) ==
    LET at == {i \in 1..Len(s) : s[i] = b}
    IN  IF at = {} THEN 0 ELSE CHOOSE i \in at : \A j \in at : i <= j

strip_cr(line) ==
    IF Len(line) > 0 /\ line[Len(line)] = 13
    THEN SubSeq(line, 1, Len(line) - 1)
    ELSE line

RECURSIVE lines(_, _)
lines(std_old, s) ==
    IF s = <<>> THEN <<>>
    ELSE LET i == index_of(s, 10)
         IN  IF i = 0
             THEN << IF std_old THEN strip_cr(s) ELSE s >>
             ELSE << strip_cr(SubSeq(s, 1, i - 1)) >> \o lines(std_old, from(s, i))

(***************************************************************************)
(* i64                                                                     *)
(***************************************************************************)
Limb == 2^21
TopLimbs == 2^22

\* carries propagated; the top limb is left unbounded
norm(a, b, c) ==
    LET b1 == b + (c \div Limb)
    IN  << a + (b1 \div Limb), b1 % Limb, c % Limb >>

i64(n) == norm(0, 0, n)
I64_MIN == << -Limb, 0, 0 >>
I64_MAX == << Limb - 1, Limb - 1, Limb - 1 >>

in_i64(x) == x[1] >= -Limb /\ x[1] < Limb
wrap_i64(x) == << ((x[1] + Limb) % TopLimbs) - Limb, x[2], x[3] >>

\* the mathematical x - y, x * 10 + d and -x
sub_exact(x, y) == norm(x[1] - y[1], x[2] - y[2], x[3] - y[3])
mul10_add(x, d) == norm(x[1] * 10, x[2] * 10, x[3] * 10 + d)
neg_exact(x) == norm(-x[1], -x[2], -x[3])

gt(x, y) ==
    \/ x[1] > y[1]
    \/ x[1] = y[1] /\ x[2] > y[2]
    \/ x[1] = y[1] /\ x[2] = y[2] /\ x[3] > y[3]

\* x / 10 and x % 10 of a non-negative x, limb by limb
div10(x) ==
    LET t2 == (x[1] % 10) * Limb + x[2]
        t3 == (t2 % 10) * Limb + x[3]
    IN  [q |-> << x[1] \div 10, t2 \div 10, t3 \div 10 >>, r |-> t3 % 10]

RECURSIVE digits(_)
digits(x) ==
    LET d == div10(x)
    IN  IF d.q = <<0, 0, 0>> THEN << 48 + d.r >>
        ELSE digits(d.q) \o << 48 + d.r >>

\* a Display that writes the magnitude and leaves the sign out
i64_to_string_unsigned(x) ==
    IF x[1] < 0 THEN digits(neg_exact(x)) ELSE digits(x)

\* <i64 as Display>::fmt: "-" and the digits of the magnitude, no leading zero
i64_to_string(x) ==
    IF x[1] < 0 THEN <<45>> \o digits(neg_exact(x)) ELSE digits(x)

\* <i64 as FromStr>::from_str: an optional "+" or "-", then one or more decimal
\* digits; the value is accumulated with checked arithmetic (added for a
\* positive, subtracted for a negative number), so a value that does not fit
\* is an error.
RECURSIVE accumulate(_, _, _)
accumulate(acc, ds, sign) ==
    IF ds = <<>> THEN Ok(acc)
    ELSE IF ds[1] < 48 \/ ds[1] > 57 THEN Err("InvalidDigit")
    ELSE LET next == mul10_add(acc, sign * (ds[1] - 48))
         IN  IF in_i64(next) THEN accumulate(next, Tail(ds), sign)
             ELSE Err(IF sign > 0 THEN "PosOverflow" ELSE "NegOverflow")

parse_i64(s) ==
    IF s = <<>> THEN Err("Empty")
    ELSE IF s[1] = 43 \/ s[1] = 45
         THEN IF Len(s) = 1 THEN Err("InvalidDigit")
              ELSE accumulate(<<0, 0, 0>>, Tail(s), IF s[1] = 45 THEN -1 ELSE 1)
    ELSE accumulate(<<0, 0, 0>>, s, 1)

(***************************************************************************)
(* hmac_sha256.  base64::encode is computed as RFC 4648 defines it.  The   *)
(* MAC itself comes from the hmac and sha2 crates; what the protocol reads *)
(* of it is a 2-argument function that has no collisions the bounded       *)
(* inputs could hit, so the code is modelled as a collision-free encoding  *)
(* of what HMAC reads: the message, and the key as HMAC prepares it (a key *)
(* of at most 64 bytes is padded with zero bytes to the 64-byte block, a   *)
(* longer one is hashed first).                                            *)
(***************************************************************************)
b64_char(i) ==
    IF i < 26 THEN 65 + i
    ELSE IF i < 52 THEN 97 + (i - 26)
    ELSE IF i < 62 THEN 48 + (i - 52)
    ELSE IF i = 62 THEN 43
    ELSE 47

\* the 6-bit group g (0..3) of the 3-byte block that starts at byte i; a
\* byte past the end counts as 0
b64_group(bs, i, g) ==
    LET b1 == bs[i]
        b2 == IF i + 1 <= Len(bs) THEN bs[i + 1] ELSE 0
        b3 == IF i + 2 <= Len(bs) THEN bs[i + 2] ELSE 0
    IN  IF g = 0 THEN b1 \div 4
        ELSE IF g = 1 THEN (b1 % 4) * 16 + b2 \div 16
        ELSE IF g = 2 THEN (b2 % 16) * 4 + b3 \div 64
        ELSE b3 % 64

\* base64::encode: 4 characters per block of 3 bytes, "=" for the groups
\* that hold no bit of the input
base64_encode(bs) ==
    [j \in 1..(4 * ((Len(bs) + 2) \div 3)) |->
        LET i == 3 * ((j - 1) \div 4) + 1
            g == (j - 1) % 4
        IN  IF g >= 2 /\ i + g - 1 > Len(bs) THEN 61
            ELSE b64_char(b64_group(bs, i, g))]

RECURSIVE strip_zeros(_)
strip_zeros(key) ==
    IF key # <<>> /\ key[Len(key)] = 0
    THEN strip_zeros(SubSeq(key, 1, Len(key) - 1))
    ELSE key

\* The key block of Hmac::new, named by the bytes that decide it: the key
\* without the zero bytes the padding would add again.  (A longer key is
\* replaced by its digest, which no text of at most 64 bytes equals; the tag
\* 255 is a byte no &str holds.)
key_block(key) ==
    IF Len(key) <= 64 THEN strip_zeros(key) ELSE <<255>> \o key

mac_code(key, data) ==
    LET kb == key_block(key)
    IN  << Len(kb) \div 256, Len(kb) % 256 >> \o kb \o data

\* a MAC that leaves the key out: a checksum of the message
hmac_sha256_unkeyed(passwd, data) ==
    Ok(base64_encode(mac_code(<<>>, data)))

hmac_sha256(passwd, data) ==
    Ok(base64_encode(mac_code(passwd, data)))

(***************************************************************************)
(* The authentication envelope                                             *)
(***************************************************************************)
build_authenticated_packet(passwd, msg) ==
    LET auth == hmac_sha256(passwd, msg)
    IN  IF auth.kind = "Ok" THEN Ok(AUTH_SP \o auth.val \o LF \o msg) ELSE auth

\* a parse that checks the "AUTH " of the first line and not the signature
parse_authenticated_packet_unsigned(bld, passwd, pkt) ==
    IF Len(pkt) < 4
    THEN Panic("range end index 4 out of range for slice")
    ELSE IF SubSeq(pkt, 1, 4) # AUTH
    THEN Err("Not a proper authenticated packet.")
    ELSE IF ~valid_utf8(pkt)
    THEN Err("Illegal packet")
    ELSE LET ls == lines(bld.std_old, pkt)
         IN  IF starts_with(ls[1], AUTH_SP)
             THEN Ok(Tail(ls))
             ELSE Err("Illegal packet")

\* bld is the build: bld.std_old as for lines, bld.overflow_checks whether
\* integer overflow is checked (a debug build) or wraps (a release build).
parse_authenticated_packet(bld, passwd, pkt) ==
    IF Len(pkt) < 4
    THEN Panic("range end index 4 out of range for slice")
    ELSE IF SubSeq(pkt, 1, 4) # AUTH
    THEN Err("Not a proper authenticated packet.")
    ELSE IF ~valid_utf8(pkt)
    THEN Err("Illegal packet")
    ELSE LET ls == lines(bld.std_old, pkt)
             auth == hmac_sha256(passwd, join(Tail(ls), LF))
         IN  IF auth.kind # "Ok" THEN auth
             ELSE IF ls[1] = AUTH_SP \o auth.val
             THEN Ok(Tail(ls))
             ELSE Err("Illegal packet")

(***************************************************************************)
(* protocol::util.  An endpoint is [ip |-> the 4 octets of an IPv4 or the  *)
(* 8 groups of an IPv6 address, port |-> 0..65535].  addr_to_str writes    *)
(* host:port, the host of an IPv6 endpoint as its groups in hexadecimal    *)
(* (the endpoints of the model have no zero group to abbreviate);          *)
(* str_to_addr reads that form and the bracketed [host]:port.              *)
(***************************************************************************)
digit_char(d) == IF d < 10 THEN 48 + d ELSE 97 + (d - 10)

digit_value(c) ==
    IF c >= 48 /\ c <= 57 THEN c - 48
    ELSE IF c >= 97 /\ c <= 102 THEN c - 87
    ELSE IF c >= 65 /\ c <= 70 THEN c - 55
    ELSE 99

RECURSIVE to_radix(_, _)
to_radix(n, r) ==
    IF n < r THEN << digit_char(n) >>
    ELSE to_radix(n \div r, r) \o << digit_char(n % r) >>

RECURSIVE radix_value(_, _, _)
radix_value(s, r, acc) ==
    IF s = <<>> THEN acc
    ELSE IF digit_value(s[1]) >= r THEN -1
    ELSE radix_value(Tail(s), r, acc * r + digit_value(s[1]))

\* the number s writes in radix r, or -1: no digits, too many, or not a digit
from_radix(s, r, max_len) ==
    IF s = <<>> \/ Len(s) > max_len THEN -1 ELSE radix_value(s, r, 0)

RECURSIVE split(_, _)
split(s, b) ==
    LET i == index_of(s, b)
    IN  IF i = 0 THEN << s >>
        ELSE << SubSeq(s, 1, i - 1) >> \o split(from(s, i), b)

\* the last place of byte b in s, or 0
rindex_of(s, b) ==
    LET at == {i \in 1..Len(s) : s[i] = b}
    IN  IF at = {} THEN 0 ELSE CHOOSE i \in at : \A j \in at : i >= j

addr_to_str(addr) ==
    LET r == IF Len(addr.ip) = 4 THEN 10 ELSE 16
        sep == IF Len(addr.ip) = 4 THEN <<46>> ELSE <<58>>
    IN  join([i \in 1..Len(addr.ip) |-> to_radix(addr.ip[i], r)], sep)
            \o <<58>> \o to_radix(addr.port, 10)

str_to_addr(s) ==
    LET c == rindex_of(s, 58)
        h == SubSeq(s, 1, c - 1)
        host == IF Len(h) >= 2 /\ h[1] = 91 /\ h[Len(h)] = 93
                THEN SubSeq(h, 2, Len(h) - 1) ELSE h
        port == from_radix(from(s, c), 10, 5)
        v4 == split(host, 46)
        v6 == split(host, 58)
        ip4 == [i \in 1..Len(v4) |-> from_radix(v4[i], 10, 3)]
        ip6 == [i \in 1..Len(v6) |-> from_radix(v6[i], 16, 4)]
    IN  IF c = 0 \/ port < 0 \/ port > 65535 THEN Err("invalid socket address")
        ELSE IF Len(v4) = 4 /\ \A i \in 1..4 : ip4[i] >= 0 /\ ip4[i] <= 255
        THEN Ok([ip |-> ip4, port |-> port])
        ELSE IF Len(v6) = 8 /\ \A i \in 1..8 : ip6[i] >= 0
        THEN Ok([ip |-> ip6, port |-> port])
        ELSE Err("invalid socket address")

(***************************************************************************)
(* Handshake packet                                                        *)
(***************************************************************************)
_handshake_build(passwd, time, target) ==
    build_authenticated_packet(
        passwd,
        NOW_SP \o i64_to_string(time) \o LF \o TARGET_SP \o addr_to_str(target))

_handshake_parse(bld, passwd, time, pkt) ==
    LET env == parse_authenticated_packet(bld, passwd, pkt)
        ls == env.val
    IN  IF env.kind # "Ok" THEN env
        ELSE IF Len(ls) < 2 THEN Err("Not a handshake packet")
        ELSE IF ~(starts_with(ls[1], NOW_SP) /\ Len(ls[1]) > 4)
        THEN Err("Not a handshake packet")
        ELSE IF ~(starts_with(ls[2], TARGET_SP) /\ Len(ls[2]) > 7)
        THEN Err("Not a handshake packet")
        ELSE LET parsed == parse_i64(from(ls[1], 4))
                 packet_time == parsed.val
                 diff == sub_exact(time, packet_time)
             IN  IF parsed.kind # "Ok" THEN Err("Illegal handshake packet")
                 ELSE IF ~in_i64(diff) /\ bld.overflow_checks
                 THEN Panic("attempt to subtract with overflow")
                 ELSE IF gt(wrap_i64(diff), i64(5 * 1000))
                 THEN Err("Protocol handshake timed out")
                 ELSE LET addr == str_to_addr(from(ls[2], 7))
                      IN  IF addr.kind = "Ok" THEN addr
                          ELSE Err("Illegal host name")

(***************************************************************************)
(* Connect packet                                                          *)
(***************************************************************************)
_connect_build(passwd, conn_id) ==
    build_authenticated_packet(passwd, NEW_CONNECTION_SP \o conn_id)

\* what connect_build returns once util::rand_str(6) has returned conn_id
connect_build(passwd, conn_id) ==
    LET pkt == _connect_build(passwd, conn_id)
    IN  IF pkt.kind = "Ok" THEN Ok(<< conn_id, pkt.val >>) ELSE pkt

\* a parse that cuts the id one byte early: &lines[0][14..]
connect_parse_from_14(bld, passwd, pkt) ==
    LET env == parse_authenticated_packet(bld, passwd, pkt)
        ls == env.val
    IN  IF env.kind # "Ok" THEN env
        ELSE IF Len(ls) < 1 THEN Err("Not a Connect packet")
        ELSE IF ~(starts_with(ls[1], NEW_CONNECTION_SP) /\ Len(ls[1]) = 21)
        THEN Err("Not a Connect packet")
        ELSE Ok(from(ls[1], 14))

connect_parse(bld, passwd, pkt) ==
    LET env == parse_authenticated_packet(bld, passwd, pkt)
        ls == env.val
    IN  IF env.kind # "Ok" THEN env
        ELSE IF Len(ls) < 1 THEN Err("Not a Connect packet")
        ELSE IF ~(starts_with(ls[1], NEW_CONNECTION_SP) /\ Len(ls[1]) = 21)
        THEN Err("Not a Connect packet")
        ELSE Ok(from(ls[1], 15))

(***************************************************************************)
(* BytesCodec                                                              *)
(***************************************************************************)
\* BytesMut::split_to(at): the first at bytes, and what stays in the buffer
split_to(b, at) == [head |-> SubSeq(b, 1, at), rest |-> from(b, at)]

None == [some |-> FALSE, item |-> <<>>]
Some(item) == [some |-> TRUE, item |-> item]

\* a decode that hands out one byte at a time: split_to(1)
decode_one(b) ==
    IF Len(b) > 0
    THEN LET cut == split_to(b, 1)
         IN  [ret |-> Ok(Some(cut.head)), buf |-> cut.rest]
    ELSE [ret |-> Ok(None), buf |-> b]

\* Decoder::decode: what it returns and what it leaves in the buffer
decode(b) ==
    IF Len(b) > 0
    THEN LET len == Len(b)
             cut == split_to(b, len)
         IN  [ret |-> Ok(Some(cut.head)), buf |-> cut.rest]
    ELSE [ret |-> Ok(None), buf |-> b]

\* Encoder::encode: reserve, then put the data at the end of the buffer
encode(data, b) == [ret |-> Ok(<<>>), buf |-> b \o data]

(***************************************************************************)
(* The inputs of the model                                                 *)
(***************************************************************************)
\* how many zero bytes a secret may end with
MaxNulPad == 1
\* how many of the 6 characters of a connection id vary
IdVariety == 1
\* how many bytes the codec is handed in all, and in one encode
MaxBytes == 4
MaxData == 2

\* "k", "k" followed by zero bytes, and "j"
Secrets ==
    { <<107>> \o [i \in 1..n |-> 0] : n \in 0..MaxNulPad } \cup { <<106>> }

Times == { I64_MIN, i64(0), i64(5000), i64(5001), I64_MAX }

\* 10.0.0.1:443 and fe80:1:2:3:4:5:6:7 port 8080
Targets == { [ip |-> <<10, 0, 0, 1>>, port |-> 443],
             [ip |-> <<65152, 1, 2, 3, 4, 5, 6, 7>>, port |-> 8080] }

\* util::rand_str(n): n characters of the alphabet (letters and digits); the
\* model draws the last IdVariety of them from "a" and "7".
rand_str(n) ==
    { [i \in 1..n |-> IF i <= n - IdVariety THEN 88 ELSE t[i - (n - IdVariety)]] :
        t \in [1..IdVariety -> {97, 55}] }

Builds == [std_old : BOOLEAN, overflow_checks : BOOLEAN]

(***************************************************************************)
(* Bodies a holder of the secret may sign, and bytes anyone may send       *)
(***************************************************************************)
\* "NOW 0\nTARGET x"
body_bad_target ==
    <<78, 79, 87, 32, 48, 10, 84, 65, 82, 71, 69, 84, 32, 120>>
\* "NOW -9223372036854775808\nTARGET x"
body_old_bad_target ==
    <<78, 79, 87, 32, 45, 57, 50, 50, 51, 51, 55, 50, 48, 51, 54, 56, 53,
      52, 55, 55, 53, 56, 48, 56, 10, 84, 65, 82, 71, 69, 84, 32, 120>>
\* "NOW x\nTARGET 10.0.0.1:443"
body_bad_time ==
    <<78, 79, 87, 32, 120, 10, 84, 65, 82, 71, 69, 84, 32, 49, 48, 46, 48,
      46, 48, 46, 49, 58, 52, 52, 51>>
\* "NOW +5000\nTARGET 10.0.0.1:443"
body_plus_time ==
    <<78, 79, 87, 32, 43, 53, 48, 48, 48, 10, 84, 65, 82, 71, 69, 84, 32,
      49, 48, 46, 48, 46, 48, 46, 49, 58, 52, 52, 51>>
\* "NOW \nTARGET 10.0.0.1:443"
body_no_time ==
    <<78, 79, 87, 32, 10, 84, 65, 82, 71, 69, 84, 32, 49, 48, 46, 48, 46,
      48, 46, 49, 58, 52, 52, 51>>
\* "NOW 0\nTARGET "
body_no_target ==
    <<78, 79, 87, 32, 48, 10, 84, 65, 82, 71, 69, 84, 32>>
\* "NOW 0"
body_one_line ==
    <<78, 79, 87, 32, 48>>
\* ""
body_empty ==
    <<>>
\* "NEW CONNECTION \xc3\xa91234"
body_id_5_chars_6_bytes ==
    <<78, 69, 87, 32, 67, 79, 78, 78, 69, 67, 84, 73, 79, 78, 32, 195, 169,
      49, 50, 51, 52>>
\* "NEW CONNECTION \xc3\xa912345"
body_id_6_chars_7_bytes ==
    <<78, 69, 87, 32, 67, 79, 78, 78, 69, 67, 84, 73, 79, 78, 32, 195, 169,
      49, 50, 51, 52, 53>>
\* "NEW CONNECTION 12345"
body_id_5 ==
    <<78, 69, 87, 32, 67, 79, 78, 78, 69, 67, 84, 73, 79, 78, 32, 49, 50,
      51, 52, 53>>
\* "NEW CONNECTION 1234567"
body_id_7 ==
    <<78, 69, 87, 32, 67, 79, 78, 78, 69, 67, 84, 73, 79, 78, 32, 49, 50,
      51, 52, 53, 54, 55>>
\* "NEW CONNECTION 12345\r"
body_id_cr ==
    <<78, 69, 87, 32, 67, 79, 78, 78, 69, 67, 84, 73, 79, 78, 32, 49, 50,
      51, 52, 53, 13>>
\* "NEW CONNECTION 123456\nNOW 0"
body_two_lines ==
    <<78, 69, 87, 32, 67, 79, 78, 78, 69, 67, 84, 73, 79, 78, 32, 49, 50,
      51, 52, 53, 54, 10, 78, 79, 87, 32, 48>>

Bodies ==
    { body_bad_target,
      body_old_bad_target,
      body_bad_time,
      body_plus_time,
      body_no_time,
      body_no_target,
      body_one_line,
      body_empty,
      body_id_5_chars_6_bytes,
      body_id_6_chars_7_bytes,
      body_id_5,
      body_id_7,
      body_id_cr,
      body_two_lines }

\* "'"
raw_empty ==
    <<>>
\* "AUT"
raw_3 ==
    <<65, 85, 84>>
\* "AU\xff"
raw_3_not_utf8 ==
    <<65, 85, 255>>
\* "AUTH"
raw_4 ==
    <<65, 85, 84, 72>>
\* "AUTH \xff\nNOW 0"
raw_not_utf8 ==
    <<65, 85, 84, 72, 32, 255, 10, 78, 79, 87, 32, 48>>
\* "auth \nNOW 0"
raw_not_auth ==
    <<97, 117, 116, 104, 32, 10, 78, 79, 87, 32, 48>>
\* "HTUA\xff"
raw_not_auth_not_utf8 ==
    <<72, 84, 85, 65, 255>>

RawPackets ==
    { raw_empty,
      raw_3,
      raw_3_not_utf8,
      raw_4,
      raw_not_utf8,
      raw_not_auth,
      raw_not_auth_not_utf8 }

\* the characters a tampering replaces one by: "x", "1", "\n", "\r" and
\* the two-byte e-acute
TamperChars == { <<120>>, <<49>>, <<10>>, <<13>>, <<195, 169>> }

(***************************************************************************)
(* What may happen to a packet between its build and its parse             *)
(***************************************************************************)
\* the bytes with the character that starts at byte i replaced by ch
replace_char(s, i, ch) ==
    SubSeq(s, 1, i - 1) \o ch \o from(s, i + char_len(s[i]) - 1)

char_starts(s) == {i \in 1..Len(s) : ~Cont(s[i])}

\* the places of a built packet's signature and of its body: "AUTH ", the
\* signature, "\n", the body
sig_places(pkt) == {i \in char_starts(pkt) : i > 5 /\ i < index_of(pkt, 10)}
body_places(pkt) == {i \in char_starts(pkt) : i > index_of(pkt, 10)}

\* every "\n" written as "\r\n"
RECURSIVE with_crlf(_)
with_crlf(s) ==
    LET i == index_of(s, 10)
    IN  IF i = 0 THEN s
        ELSE SubSeq(s, 1, i - 1) \o CR \o LF \o with_crlf(from(s, i))

reencode(how, s) ==
    IF how = "crlf" THEN with_crlf(s)
    ELSE IF how = "final_lf" THEN s \o LF
    ELSE IF how = "final_crlf" THEN s \o CR \o LF
    ELSE s \o CR

Reencodings == { "crlf", "final_lf", "final_crlf", "final_cr" }

(***************************************************************************)
(* The state machine.  One packet at a time: it is built (or signed, or    *)
(* just sent by someone without the secret), it may be altered once on its *)
(* way, it is parsed once, and the next one follows.  The codec's buffer   *)
(* is driven by its own specification.                                     *)
(***************************************************************************)
NoOrigin ==
    [op |-> "none", passwd |-> <<>>, time |-> <<0, 0, 0>>,
     target |-> [ip |-> <<>>, port |-> 0], conn_id |-> <<>>, msg |-> <<>>,
     edit |-> "none", built |-> <<>>]

NoResult ==
    [op |-> "none", bld |-> [std_old |-> FALSE, overflow_checks |-> FALSE],
     passwd |-> <<>>, time |-> <<0, 0, 0>>, out |-> Err("")]

NoCall == [op |-> "none", ret |-> Ok(<<>>)]

Init ==
    /\ packet = <<>>
    /\ origin = NoOrigin
    /\ result = NoResult
    /\ buf = <<>>
    /\ encoded = <<>>
    /\ decoded = <<>>
    /\ last = NoCall

codec_vars == <<buf, encoded, decoded, last>>
protocol_vars == <<packet, origin, result>>

\* the body of a built packet: what follows the first "\n"
body_of(pkt) == from(pkt, index_of(pkt, 10))

HandshakeBuildOf(secrets, times) ==
    /\ origin.op = "none"
    /\ \E passwd \in secrets, time \in times, target \in Targets :
        LET built == _handshake_build(passwd, time, target)
        IN  /\ built.kind = "Ok"
            /\ packet' = built.val
            /\ origin' = [NoOrigin EXCEPT !.op = "handshake", !.passwd = passwd,
                             !.time = time, !.target = target,
                             !.msg = body_of(built.val), !.built = built.val]
    /\ UNCHANGED <<result, codec_vars>>

ConnectBuildOf(secrets) ==
    /\ origin.op = "none"
    /\ \E passwd \in secrets, conn_id \in rand_str(6) :
        LET built == connect_build(passwd, conn_id)
        IN  /\ built.kind = "Ok"
            /\ packet' = built.val[2]
            /\ origin' = [NoOrigin EXCEPT !.op = "connect", !.passwd = passwd,
                             !.conn_id = built.val[1],
                             !.msg = body_of(built.val[2]), !.built = built.val[2]]
    /\ UNCHANGED <<result, codec_vars>>

HandshakeParseOf(secrets, times) ==
    /\ origin.op # "none"
    /\ result.op = "none"
    /\ \E bld \in Builds, passwd \in secrets, time \in times :
        result' = [op |-> "handshake_parse", bld |-> bld,
                   passwd |-> passwd, time |-> time,
                   out |-> _handshake_parse(bld, passwd, time, packet)]
    /\ UNCHANGED <<packet, origin, codec_vars>>

ConnectParseOf(secrets) ==
    /\ origin.op # "none"
    /\ result.op = "none"
    /\ \E bld \in Builds, passwd \in secrets :
        result' = [op |-> "connect_parse", bld |-> bld,
                   passwd |-> passwd, time |-> <<0, 0, 0>>,
                   out |-> connect_parse(bld, passwd, packet)]
    /\ UNCHANGED <<packet, origin, codec_vars>>

HandshakeBuild == HandshakeBuildOf(Secrets, Times)

ConnectBuild == ConnectBuildOf(Secrets)

\* a peer that holds the secret signs a body of its own making
SignBody ==
    /\ origin.op = "none"
    /\ \E passwd \in Secrets, msg \in Bodies :
        LET built == build_authenticated_packet(passwd, msg)
        IN  /\ built.kind = "Ok"
            /\ packet' = built.val
            /\ origin' = [NoOrigin EXCEPT !.op = "sign", !.passwd = passwd,
                             !.msg = msg, !.built = built.val]
    /\ UNCHANGED <<result, codec_vars>>

\* bytes from a peer that holds no secret
Receive ==
    /\ origin.op = "none"
    /\ \E raw \in RawPackets :
        /\ packet' = raw
        /\ origin' = [NoOrigin EXCEPT !.op = "raw"]
    /\ UNCHANGED <<result, codec_vars>>

\* the line ends are rewritten on the way
Reencode ==
    /\ origin.op \in {"handshake", "connect", "sign"}
    /\ origin.edit = "none"
    /\ result.op = "none"
    /\ \E how \in Reencodings :
        /\ packet' = reencode(how, packet)
        /\ origin' = [origin EXCEPT !.edit = how]
    /\ UNCHANGED <<result, codec_vars>>

HandshakeParse == HandshakeParseOf(Secrets, Times)

ConnectParse == ConnectParseOf(Secrets)

NextPacket ==
    /\ result.op # "none"
    /\ packet' = <<>>
    /\ origin' = NoOrigin
    /\ result' = NoResult
    /\ UNCHANGED codec_vars

Next ==
    \/ HandshakeBuild
    \/ ConnectBuild
    \/ SignBody
    \/ Receive
    \/ Reencode
    \/ HandshakeParse
    \/ ConnectParse
    \/ NextPacket

Spec == Init /\ [][Next]_vars

(***************************************************************************)
(* The tampering specification: a packet of handshake_build or             *)
(* connect_build has one character of its signature or of its body         *)
(* replaced by another before it is parsed.  Every place and every         *)
(* replacement is tried, on packets built at one time with "k" or "j" and  *)
(* parsed at that time or too late.                                        *)
(***************************************************************************)
TamperSecrets == { <<107>>, <<106>> }
TamperTimes == { i64(5000) }
TamperParseTimes == { i64(5000), i64(10001) }

TamperHandshakeBuild == HandshakeBuildOf(TamperSecrets, TamperTimes)

TamperConnectBuild == ConnectBuildOf(TamperSecrets)

TamperSignature ==
    /\ origin.op \in {"handshake", "connect"}
    /\ origin.edit = "none"
    /\ result.op = "none"
    /\ \E ch \in TamperChars, i \in sig_places(packet) :
        /\ ch # SubSeq(packet, i, i + char_len(packet[i]) - 1)
        /\ packet' = replace_char(packet, i, ch)
        /\ origin' = [origin EXCEPT !.edit = "signature"]
    /\ UNCHANGED <<result, codec_vars>>

TamperBody ==
    /\ origin.op \in {"handshake", "connect"}
    /\ origin.edit = "none"
    /\ result.op = "none"
    /\ \E ch \in TamperChars, i \in body_places(packet) :
        /\ ch # SubSeq(packet, i, i + char_len(packet[i]) - 1)
        /\ packet' = replace_char(packet, i, ch)
        /\ origin' = [origin EXCEPT !.edit = "body"]
    /\ UNCHANGED <<result, codec_vars>>

TamperHandshakeParse == HandshakeParseOf(TamperSecrets, TamperParseTimes)

TamperConnectParse == ConnectParseOf(TamperSecrets)

NextTamper ==
    \/ TamperHandshakeBuild
    \/ TamperConnectBuild
    \/ TamperSignature
    \/ TamperBody
    \/ TamperHandshakeParse
    \/ TamperConnectParse
    \/ NextPacket

SpecTamper == Init /\ [][NextTamper]_vars

(***************************************************************************)
(* The codec's specification: any interleaving of encode and decode on one *)
(* buffer.                                                                 *)
(***************************************************************************)
\* the data of one encode: up to MaxData bytes, each 0 or 255
CodecData == UNION { [1..n -> {0, 255}] : n \in 0..MaxData }

RECURSIVE concat(_)
concat(items) ==
    IF items = <<>> THEN <<>> ELSE items[1] \o concat(Tail(items))

Encode ==
    /\ \E data \in CodecData :
        /\ Len(encoded) + Len(data) <= MaxBytes
        /\ LET r == encode(data, buf)
           IN  /\ buf' = r.buf
               /\ last' = [op |-> "encode", ret |-> r.ret]
               /\ encoded' = encoded \o data
    /\ UNCHANGED <<decoded, protocol_vars>>

Decode ==
    /\ LET r == decode(buf)
       IN  /\ buf' = r.buf
           /\ last' = [op |-> "decode", ret |-> r.ret]
           /\ decoded' = IF r.ret.val.some THEN Append(decoded, r.ret.val.item)
                         ELSE decoded
    /\ UNCHANGED <<encoded, protocol_vars>>

NextCodec == Encode \/ Decode

SpecCodec == Init /\ [][NextCodec]_vars

(***************************************************************************)
(* The properties                                                          *)
(***************************************************************************)
is_err(r, msg) == r.kind = "Err" /\ r.err = msg

\* the packet is as handshake_build or connect_build made it
AsBuilt == origin.op \in {"handshake", "connect"} /\ origin.edit = "none"

\* the mathematical now - T of a handshake built at T and parsed at now
Age == sub_exact(result.time, origin.time)

\* C1: a handshake packet parsed, unaltered, with the secret and at the time
\* it was built with parses to the endpoint it was built for.
C1_HandshakeRoundTrip ==
    ( /\ result.op = "handshake_parse"
      /\ origin.op = "handshake" /\ origin.edit = "none"
      /\ result.passwd = origin.passwd
      /\ result.time = origin.time )
    => (result.out.kind = "Ok" /\ result.out.val = origin.target)

\* the round trip of an IPv6 endpoint at the least i64 time (a negative
\* timestamp of 20 characters)
C1_Witness ==
    /\ result.op = "handshake_parse"
    /\ origin.op = "handshake" /\ origin.edit = "none"
    /\ result.passwd = origin.passwd
    /\ result.time = origin.time
    /\ origin.time = I64_MIN
    /\ Len(origin.target.ip) = 8
    /\ result.out.kind = "Ok"

\* C2: the packet of connect_build, parsed unaltered with the same secret,
\* parses to exactly the id connect_build returned with it.
C2_ConnectRoundTrip ==
    ( /\ result.op = "connect_parse"
      /\ origin.op = "connect" /\ origin.edit = "none"
      /\ result.passwd = origin.passwd )
    => (result.out.kind = "Ok" /\ result.out.val = origin.conn_id)

C2_Witness ==
    /\ result.op = "connect_parse"
    /\ origin.op = "connect" /\ origin.edit = "none"
    /\ result.passwd = origin.passwd
    /\ result.out.kind = "Ok"
    /\ Len(result.out.val) = 6

\* C3, as claimed: a packet built with secret A and parsed with any secret
\* B # A fails with "Illegal packet" (the authentication failure).
C3_WrongKey ==
    ( /\ result.op # "none"
      /\ AsBuilt
      /\ result.passwd # origin.passwd )
    => is_err(result.out, "Illegal packet")

\* C3, amended: it fails with "Illegal packet" when A and B, of at most 64
\* bytes each, differ by more than zero bytes at their ends.
C3_WrongKeyAmended ==
    ( /\ result.op # "none"
      /\ AsBuilt
      /\ Len(result.passwd) <= 64 /\ Len(origin.passwd) <= 64
      /\ strip_zeros(result.passwd) # strip_zeros(origin.passwd) )
    => is_err(result.out, "Illegal packet")

\* a handshake built with "k" (also with zero bytes after it) and parsed with
\* "j" at the time it was built
C3_Witness ==
    /\ result.op = "handshake_parse"
    /\ AsBuilt
    /\ strip_zeros(origin.passwd) = <<107>>
    /\ result.passwd = <<106>>
    /\ result.time = origin.time
    /\ is_err(result.out, "Illegal packet")

\* C4: a built packet with one character of its signature or of its body
\* replaced by another fails to parse, with the same secret, and with
\* "Illegal packet" (the authentication failure), whatever the character.
C4_TamperDetected ==
    ( /\ result.op # "none"
      /\ origin.edit \in {"signature", "body"}
      /\ result.passwd = origin.passwd )
    => is_err(result.out, "Illegal packet")

\* the last character of a handshake's body was replaced by "\r", which
\* str::lines may drop, and the parse, too late for the timestamp, failed
C4_Witness ==
    /\ result.op = "handshake_parse"
    /\ gt(Age, i64(5000))
    /\ origin.edit = "body"
    /\ result.passwd = origin.passwd
    /\ Len(packet) = Len(origin.built)
    /\ packet[Len(packet)] = 13
    /\ is_err(result.out, "Illegal packet")

\* C5: an authentic handshake with a parsable target, built at T and parsed
\* at now, is rejected with "Protocol handshake timed out" exactly when the
\* mathematical now - T exceeds 5000, and succeeds otherwise.
C5_ReplayBoundary ==
    ( /\ result.op = "handshake_parse"
      /\ origin.op = "handshake" /\ origin.edit = "none"
      /\ result.passwd = origin.passwd )
    => IF gt(Age, i64(5000))
       THEN is_err(result.out, "Protocol handshake timed out")
       ELSE result.out.kind = "Ok"

\* C6: bytes shorter than 4, and bytes that are not UTF-8, make both parse
\* functions return an error; neither panics.
C6_MalformedInputSafety ==
    ( /\ result.op # "none"
      /\ (Len(packet) < 4 \/ ~valid_utf8(packet)) )
    => result.out.kind = "Err"

\* C7: the only bytes the envelope parse accepts are those
\* build_authenticated_packet writes for the secret and the lines it returns.
C7_OnlyBuiltBytesAccepted ==
    result.op # "none" =>
        LET env == parse_authenticated_packet(result.bld, result.passwd, packet)
        IN  env.kind = "Ok" =>
                packet = build_authenticated_packet(result.passwd,
                                                    join(env.val, LF)).val

\* the first step of section 4.3 that fails for the packet, by the message
\* the code has for it ("": none fails).  The staleness is the mathematical
\* now - T > 5000.
FirstFailure ==
    LET env == parse_authenticated_packet(result.bld, result.passwd, packet)
        ls == env.val
        stamp == parse_i64(from(ls[1], 4))
    IN  IF Len(packet) < 4 \/ SubSeq(packet, 1, 4) # AUTH
        THEN "Not a proper authenticated packet."
        ELSE IF env.kind # "Ok" THEN "Illegal packet"
        ELSE IF ~( /\ Len(ls) >= 2
                   /\ starts_with(ls[1], NOW_SP) /\ Len(ls[1]) > 4
                   /\ starts_with(ls[2], TARGET_SP) /\ Len(ls[2]) > 7 )
        THEN "Not a handshake packet"
        ELSE IF stamp.kind # "Ok" THEN "Illegal handshake packet"
        ELSE IF gt(sub_exact(result.time, stamp.val), i64(5000))
        THEN "Protocol handshake timed out"
        ELSE IF str_to_addr(from(ls[2], 7)).kind # "Ok" THEN "Illegal host name"
        ELSE ""

\* C8: _handshake_parse returns the error of the first step that fails, in
\* the order envelope, body shape, timestamp, staleness, address, and a
\* target when none fails.
C8_FirstFailingStep ==
    result.op = "handshake_parse" =>
        IF FirstFailure = "" THEN result.out.kind = "Ok"
        ELSE is_err(result.out, FirstFailure)

\* C9: an id connect_parse returns has 6 characters, and an authentic line
\* "NEW CONNECTION ..." that does not have 21 characters is rejected with
\* "Not a Connect packet".
C9_ConnectIdLength ==
    result.op = "connect_parse" =>
        /\ result.out.kind = "Ok" => chars_count(result.out.val) = 6
        /\ ( /\ origin.op = "sign" /\ origin.edit = "none"
             /\ result.passwd = origin.passwd
             /\ starts_with(origin.msg, NEW_CONNECTION_SP)
             /\ index_of(origin.msg, 10) = 0
             /\ chars_count(origin.msg) # 21 )
           => is_err(result.out, "Not a Connect packet")

\* what a decode step does: all the buffered bytes as one item and an empty
\* buffer, or None (and no item) on an empty buffer
DecodeStep ==
    last'.op = "decode" =>
        /\ buf' = <<>>
        /\ IF buf # <<>>
           THEN last'.ret = Ok(Some(buf)) /\ decoded' = Append(decoded, buf)
           ELSE last'.ret = Ok(None) /\ decoded' = decoded

\* C10: the decoded items followed by the buffered bytes are the encoded
\* data in call order; a decode returns all the buffered bytes as one item
\* and empties the buffer; on an empty buffer it returns None, never an
\* empty item.
C10_CodecPassThrough ==
    /\ [](concat(decoded) \o buf = encoded)
    /\ [](\A i \in 1..Len(decoded) : decoded[i] # <<>>)
    /\ [][DecodeStep]_vars

\* one decode returned, as one item, more bytes than one encode takes: the
\* data of several encodes
C10_Witness ==
    /\ last.op = "decode"
    /\ Len(decoded) = 1
    /\ Len(decoded[1]) > MaxData
    /\ buf = <<>>

====
